---- MODULE Spec2Model ----
(***************************************************************************)
(* The per-height message journal of the consensus engine:                 *)
(* blockchain/consensus/_internal/journal.py (class MessageLog) together   *)
(* with the Vote / Commit entries of blockchain/models.py, and the message *)
(* consumer loop BaseMessageConsumer.poll_messages of blockchain/models.py.*)
(***************************************************************************)
EXTENDS Integers, Sequences, FiniteSets, TLC

(***************************************************************************)
(* Bounds of the model and the input domains.                              *)
(***************************************************************************)
\* number of MessageLog calls explored in one behaviour
MaxCalls == 3
\* number of messages the queue hands to the consumer loop in one behaviour
MaxMessages == 3
\* the heights the chain goes through: 0 .. MaxHeight
MaxHeight == 2

\* validator public keys
PubKeys == {"A", "B", "C"}
\* rounds of the current height
Rounds == {0, 1}
\* block header hashes
Hashes == {"0xAA", "0xBB"}
\* the absent target (Python None)
Nil == "nil"
\* Python True / False / None as returned by the calls
True == "True"
False == "False"
None == "None"
\* Optional[peer_pb2.Block] without a block
NoBlock == [none |-> TRUE]
\* what the prevotes and precommits sent here name: the block 0xAA, or nothing
\* (0xBB is proposed and queried, never voted for)
Targets == {"0xAA", Nil}
\* transaction payloads
Txs == {"tx1", "bad"}

\* blockchain.utils.get_tx_hash: the derivable hash of a transaction
get_tx_hash(tx) == <<"hash", tx>>

TxHashes == {get_tx_hash(tx) : tx \in Txs}

\* the elements of a sequence (Python set(list))
Range(s) == {s[i] : i \in DOMAIN s}

\* PrevoteMessage.invalid_txs: a repeated field, so a hash may occur twice
InvalidTxsLists == {<<>>, <<get_tx_hash("bad"), get_tx_hash("bad")>>}

\* Block.body.transactions: an ordered list, so a transaction may occur twice
BodyLists == {<<"tx1", "bad">>, <<"tx1", "tx1">>}

\* peer_pb2.Block as far as the journal reads it
Blocks == [header : [hash : Hashes], body : [transactions : BodyLists]]

\* the three wire messages (models.py: Message)
PrevoteMessages ==
    [kind : {"prevote"}, round : Rounds, pubkey : PubKeys, hash : Targets,
     invalid_txs : InvalidTxsLists]
PrecommitMessages ==
    [kind : {"precommit"}, round : Rounds, pubkey : PubKeys, hash : Targets]
ProposeBlockRequests ==
    [kind : {"proposal"}, round : Rounds, block : Blocks]

\* the messages the queue hands to the consumer loop: the loop reads the type
\* alone, so two payloads per type stand for all of them
QueuedMessages == [kind : {"proposal", "prevote", "precommit"}, payload : {"m1", "m2"}]
\* Optional[Message] without a message: what queue.get returns on timeout
NoMessage == [none |-> TRUE]

(***************************************************************************)
(* State: the five maps of MessageLog; the adder (or reset) that ran last, *)
(* with its argument, and the value it returned; the number of calls made. *)
(***************************************************************************)
VARIABLES prevotes, precommits, proposals, tx_whitelist, tx_blacklist,
          call, ret, ncalls

log_vars == <<prevotes, precommits, proposals, tx_whitelist, tx_blacklist,
              call, ret, ncalls>>

(***************************************************************************)
(* State of the consumer task running BaseMessageConsumer.poll_messages,   *)
(* one record:                                                             *)
(*   pc          where the task is suspended: "idle" (not yet called),     *)
(*               "wait" (in `await self.queue.get`), "handler" (in `await  *)
(*               self.receive_*`), "stopped"                               *)
(*   height      what get_height() returns now                             *)
(*   asked       the height given to the queue.get that is pending or      *)
(*               returned last                                             *)
(*   stop_signal the stop signal has been raised                           *)
(*   returned    the messages queue.get returned, in order                 *)
(*   dispatched  the handler invocations made, in order                    *)
(*   in_progress the number of handlers invoked and not yet completed      *)
(*   event       the step taken last                                       *)
(***************************************************************************)
VARIABLE consumer

pc == consumer.pc
height == consumer.height
asked == consumer.asked
stop_signal == consumer.stop_signal
returned == consumer.returned
dispatched == consumer.dispatched
in_progress == consumer.in_progress
event == consumer.event

vars == <<log_vars, consumer>>

\* the MessageLog object
self == [prevotes |-> prevotes, precommits |-> precommits,
         proposals |-> proposals, tx_whitelist |-> tx_whitelist,
         tx_blacklist |-> tx_blacklist]

\* Python {} : the map with no key
EmptyDict == <<>>

\* dict.get(key, default)
Get(d, key, default) == IF key \in DOMAIN d THEN d[key] ELSE default

\* d[key] = value
Put(d, key, value) == [k \in DOMAIN d \cup {key} |-> IF k = key THEN value ELSE d[k]]

\* MessageLog.__init__
MessageLog__init__ ==
    [prevotes |-> EmptyDict, precommits |-> EmptyDict, proposals |-> EmptyDict,
     tx_whitelist |-> EmptyDict, tx_blacklist |-> EmptyDict]

\* Vote(pubkey, target)
Vote(pubkey, target) == [pubkey |-> pubkey, target |-> target]

\* Commit(pubkey, target)
Commit(pubkey, target) == [pubkey |-> pubkey, target |-> target]

\* a Vote compared by value (pubkey and target), as a plain dataclass would be
Vote__eq__ByValue(a, b) == a.pubkey = b.pubkey /\ a.target = b.target

\* Vote.__eq__ : identity is the pubkey alone
Vote__eq__(a, b) == a.pubkey = b.pubkey

\* a Commit compared by value (pubkey and target), as a plain dataclass would be
Commit__eq__ByValue(a, b) == a.pubkey = b.pubkey /\ a.target = b.target

\* Commit.__eq__ : identity is the pubkey alone
Commit__eq__(a, b) == a.pubkey = b.pubkey

\* `vote in set` for a set[Vote]
VoteIn(vote, s) == \E v \in s : Vote__eq__(v, vote)

\* `commit in set` for a set[Commit]
CommitIn(commit, s) == \E c \in s : Commit__eq__(c, commit)

\* set.add : an element equal to one already present is not stored
VoteSetAdd(s, vote) == IF VoteIn(vote, s) THEN s ELSE s \cup {vote}

CommitSetAdd(s, commit) == IF CommitIn(commit, s) THEN s ELSE s \cup {commit}

(***************************************************************************)
(* Queries.                                                                *)
(***************************************************************************)
count_prevotes(L, round) == Cardinality(Get(L.prevotes, round, {}))

count_precommits(L, round) == Cardinality(Get(L.precommits, round, {}))

count_prevotes_for(L, round, hash) ==
    Cardinality({vote \in Get(L.prevotes, round, {}) : vote.target = hash})

count_precommits_for(L, round, hash) ==
    Cardinality({commit \in Get(L.precommits, round, {}) : commit.target = hash})

get_candidate(L, hash) == Get(L.proposals, hash, NoBlock)

\* the quorum test written with > instead of >=
has_precommit_quorum_Strict(L, round, target, threshold) ==
    count_precommits_for(L, round, target) > threshold

has_precommit_quorum(L, round, target, threshold) ==
    count_precommits_for(L, round, target) >= threshold

has_prevote_quorum(L, round, target, threshold) ==
    count_prevotes_for(L, round, target) >= threshold

\* get_invalid_txs filtering with > instead of >=
get_invalid_txs_Strict(L, round, threshold) ==
    {t \in DOMAIN Get(L.tx_blacklist, round, EmptyDict) : L.tx_blacklist[round][t] > threshold}

get_invalid_txs(L, round, threshold) ==
    {t \in DOMAIN Get(L.tx_blacklist, round, EmptyDict) : L.tx_blacklist[round][t] >= threshold}

get_valid_txs(L, round, threshold) ==
    {t \in DOMAIN Get(L.tx_whitelist, round, EmptyDict) : L.tx_whitelist[round][t] >= threshold}

(***************************************************************************)
(* Adders: each yields the log after the call and the value returned.      *)
(***************************************************************************)
Result(L, value) == [log |-> L, ret |-> value]

\* add_precommit opening the round in prevotes as well
add_precommit_OpensPrevotes(L, precommit) ==
    LET opened == IF precommit.round \notin DOMAIN L.precommits
                  THEN [L EXCEPT !.precommits = Put(@, precommit.round, {}),
                                 !.prevotes = Put(@, precommit.round,
                                                  Get(L.prevotes, precommit.round, {}))]
                  ELSE L
        commit == Commit(precommit.pubkey, precommit.hash)
    IN  IF CommitIn(commit, opened.precommits[precommit.round])
        THEN Result(opened, False)
        ELSE Result([opened EXCEPT !.precommits[precommit.round] = CommitSetAdd(@, commit)],
                    True)

\* add_precommit letting a validator's later precommit replace its earlier one
add_precommit_Overwrite(L, precommit) ==
    LET opened == IF precommit.round \notin DOMAIN L.precommits
                  THEN [L EXCEPT !.precommits = Put(@, precommit.round, {})]
                  ELSE L
        commit == Commit(precommit.pubkey, precommit.hash)
    IN  IF CommitIn(commit, opened.precommits[precommit.round])
        THEN Result([opened EXCEPT !.precommits[precommit.round] =
                        {c \in @ : ~Commit__eq__(c, commit)} \cup {commit}],
                    False)
        ELSE Result([opened EXCEPT !.precommits[precommit.round] = CommitSetAdd(@, commit)],
                    True)

add_precommit(L, precommit) ==
    LET opened == IF precommit.round \notin DOMAIN L.precommits
                  THEN [L EXCEPT !.precommits = Put(@, precommit.round, {})]
                  ELSE L
        commit == Commit(precommit.pubkey, precommit.hash)
    IN  IF CommitIn(commit, opened.precommits[precommit.round])
        THEN Result(opened, False)
        ELSE Result([opened EXCEPT !.precommits[precommit.round] = CommitSetAdd(@, commit)],
                    True)

\* the blacklist loop run over the list itself, without set()
BlacklistUpdatePerOccurrence(bl, invalid_txs) ==
    LET bad_txs == Range(invalid_txs)
        occurrences(t) == Cardinality({i \in DOMAIN invalid_txs : invalid_txs[i] = t})
    IN  [t \in DOMAIN bl \cup bad_txs |->
            IF t \in bad_txs THEN Get(bl, t, 0) + occurrences(t) ELSE bl[t]]

\* lines 63-67: bad_txs = set(invalid_txs); for tx in bad_txs: create the
\* counter at 0, then += 1
BlacklistUpdate(bl, invalid_txs) ==
    LET bad_txs == Range(invalid_txs)
    IN  [t \in DOMAIN bl \cup bad_txs |->
            IF t \in bad_txs THEN Get(bl, t, 0) + 1 ELSE bl[t]]

\* the whitelist loop crediting the flagged hashes like the good ones
WhitelistUpdate_CreditFlagged(wl, good_txs, invalid_txs) ==
    LET credited == good_txs \cup Range(invalid_txs)
    IN  [t \in DOMAIN wl \cup credited |->
            IF t \in credited THEN Get(wl, t, 0) + 1 ELSE wl[t]]

\* lines 70-76: for txid in good_txs: create the counter at 0; += 1 unless flagged
WhitelistUpdate(wl, good_txs, invalid_txs) ==
    [t \in DOMAIN wl \cup good_txs |->
        IF t \in good_txs
        THEN Get(wl, t, 0) + (IF t \notin Range(invalid_txs) THEN 1 ELSE 0)
        ELSE wl[t]]

\* lines 53-56: open the round in prevotes and in both tally tables
OpenPrevoteRound(L, R) ==
    IF R \notin DOMAIN L.prevotes
    THEN [L EXCEPT !.prevotes = Put(@, R, {}),
                   !.tx_whitelist = Put(@, R, EmptyDict),
                   !.tx_blacklist = Put(@, R, EmptyDict)]
    ELSE L

\* lines 62-76: the tallies after a prevote that is about to be recorded
\* the tallies updated only when the prevote's target is a stored candidate
TallyPrevote_NeedsCandidate(L, prevote) ==
    LET R == prevote.round
        block == get_candidate(L, prevote.hash)
        bad_txs == Range(prevote.invalid_txs)
        blacklisted == [L EXCEPT !.tx_blacklist[R] = BlacklistUpdate(@, prevote.invalid_txs)]
        good_txs == {get_tx_hash(tx) : tx \in Range(block.body.transactions)} \ bad_txs
    IN  IF block # NoBlock
        THEN [blacklisted EXCEPT
                !.tx_whitelist[R] = WhitelistUpdate(@, good_txs, prevote.invalid_txs)]
        ELSE L

\* the tallies with good_txs taken as the whole body, flagged hashes included
TallyPrevote_KeepFlagged(L, prevote) ==
    LET R == prevote.round
        block == get_candidate(L, prevote.hash)
        blacklisted == [L EXCEPT !.tx_blacklist[R] = BlacklistUpdate(@, prevote.invalid_txs)]
        good_txs == {get_tx_hash(tx) : tx \in Range(block.body.transactions)}
    IN  IF block # NoBlock
        THEN [blacklisted EXCEPT
                !.tx_whitelist[R] = WhitelistUpdate(@, good_txs, prevote.invalid_txs)]
        ELSE blacklisted

TallyPrevote(L, prevote) ==
    LET R == prevote.round
        block == get_candidate(L, prevote.hash)
        bad_txs == Range(prevote.invalid_txs)
        blacklisted == [L EXCEPT !.tx_blacklist[R] = BlacklistUpdate(@, prevote.invalid_txs)]
        good_txs == {get_tx_hash(tx) : tx \in Range(block.body.transactions)} \ bad_txs
    IN  IF block # NoBlock
        THEN [blacklisted EXCEPT
                !.tx_whitelist[R] = WhitelistUpdate(@, good_txs, prevote.invalid_txs)]
        ELSE blacklisted

\* add_prevote updating the tallies before it looks for a duplicate
add_prevote_TallyFirst(L, prevote) ==
    LET R == prevote.round
        opened == OpenPrevoteRound(L, R)
        vote == Vote(prevote.pubkey, prevote.hash)
        tallied == TallyPrevote(opened, prevote)
    IN  IF VoteIn(vote, opened.prevotes[R])
        THEN Result(tallied, False)
        ELSE Result([tallied EXCEPT !.prevotes[R] = VoteSetAdd(@, vote)], True)

\* add_prevote letting a validator's later prevote replace its earlier one
add_prevote_Overwrite(L, prevote) ==
    LET R == prevote.round
        opened == OpenPrevoteRound(L, R)
        vote == Vote(prevote.pubkey, prevote.hash)
    IN  IF VoteIn(vote, opened.prevotes[R])
        THEN Result([opened EXCEPT
                       !.prevotes[R] = {v \in @ : ~Vote__eq__(v, vote)} \cup {vote}],
                    False)
        ELSE Result([TallyPrevote(opened, prevote) EXCEPT
                       !.prevotes[R] = VoteSetAdd(@, vote)],
                    True)

\* add_prevote recording a nil prevote without touching the tallies
add_prevote_SkipNil(L, prevote) ==
    LET R == prevote.round
        opened == OpenPrevoteRound(L, R)
        vote == Vote(prevote.pubkey, prevote.hash)
        tallied == IF prevote.hash = Nil THEN opened ELSE TallyPrevote(opened, prevote)
    IN  IF VoteIn(vote, opened.prevotes[R])
        THEN Result(opened, False)
        ELSE Result([tallied EXCEPT !.prevotes[R] = VoteSetAdd(@, vote)], True)

\* add_prevote looking for the validator's prevote in every round of the height
add_prevote_AnyRound(L, prevote) ==
    LET R == prevote.round
        opened == OpenPrevoteRound(L, R)
        vote == Vote(prevote.pubkey, prevote.hash)
    IN  IF \E R2 \in DOMAIN opened.prevotes : VoteIn(vote, opened.prevotes[R2])
        THEN Result(opened, False)
        ELSE Result([TallyPrevote(opened, prevote) EXCEPT
                       !.prevotes[R] = VoteSetAdd(@, Vote(prevote.pubkey, prevote.hash))],
                    True)

add_prevote(L, prevote) ==
    LET R == prevote.round
        opened == OpenPrevoteRound(L, R)
        vote == Vote(prevote.pubkey, prevote.hash)
    IN  IF VoteIn(vote, opened.prevotes[R])
        THEN Result(opened, False)
        ELSE Result([TallyPrevote(opened, prevote) EXCEPT
                       !.prevotes[R] = VoteSetAdd(@, Vote(prevote.pubkey, prevote.hash))],
                    True)

\* add_proposal keeping the last block received under a hash
add_proposal_LastWriterWins(L, proposal) ==
    LET hash == proposal.block.header.hash
    IN  Result([L EXCEPT !.proposals = Put(@, hash, proposal.block)],
               IF hash \in DOMAIN L.proposals THEN False ELSE True)

\* add_proposal crediting the stored block's transactions to the prevotes
\* already recorded for its hash
add_proposal_Retally(L, proposal) ==
    LET hash == proposal.block.header.hash
        txids == {get_tx_hash(tx) : tx \in Range(proposal.block.body.transactions)}
        retally(R) ==
            LET n == Cardinality({v \in L.prevotes[R] : v.target = hash})
                wl == L.tx_whitelist[R]
            IN  IF n = 0 THEN wl
                ELSE [t \in DOMAIN wl \cup txids |->
                         IF t \in txids THEN Get(wl, t, 0) + n ELSE wl[t]]
    IN  IF hash \in DOMAIN L.proposals
        THEN Result(L, False)
        ELSE Result([L EXCEPT !.proposals = Put(@, hash, proposal.block),
                              !.tx_whitelist = [R \in DOMAIN L.tx_whitelist |-> retally(R)]],
                    True)

add_proposal(L, proposal) ==
    LET hash == proposal.block.header.hash
    IN  IF hash \in DOMAIN L.proposals
        THEN Result(L, False)
        ELSE Result([L EXCEPT !.proposals = Put(@, proposal.block.header.hash, proposal.block)],
                    True)

\* add_message testing for PrevoteMessage first and handing it to add_precommit
add_message_Misrouted(L, message) ==
    IF message.kind = "prevote" THEN add_precommit(L, message)
    ELSE IF message.kind = "precommit" THEN add_precommit(L, message)
    ELSE add_proposal(L, message)

add_message(L, message) ==
    IF message.kind = "precommit" THEN add_precommit(L, message)
    ELSE IF message.kind = "prevote" THEN add_prevote(L, message)
    ELSE add_proposal(L, message)

\* reset clearing the three message maps only
reset_KeepTallies(L) ==
    Result([MessageLog__init__ EXCEPT !.tx_whitelist = L.tx_whitelist,
                                      !.tx_blacklist = L.tx_blacklist], None)

reset(L) == Result(MessageLog__init__, None)

\* lines 32-37: the adder the isinstance chain of add_message selects
Dispatch(message) ==
    IF message.kind = "precommit" THEN "add_precommit"
    ELSE IF message.kind = "prevote" THEN "add_prevote"
    ELSE "add_proposal"

(***************************************************************************)
(* BaseMessageConsumer (models.py): the loop of poll_messages, cut at its  *)
(* awaits.                                                                 *)
(***************************************************************************)
\* BaseMessageConsumer.__init__: the consumer exists, poll_messages has not
\* been called
BaseMessageConsumer__init__ ==
    [pc |-> "idle", height |-> 0, asked |-> <<>>, stop_signal |-> FALSE,
     returned |-> <<>>, dispatched |-> <<>>, in_progress |-> 0, event |-> "__init__"]

\* get_height(): the height of the chain at the moment of the call
get_height(C) == C.height

\* `await self.queue.get(get_height(), timeout=5)`: get_height() is evaluated,
\* queue.get is called with it and the task waits for the answer
queue_get(C) == [C EXCEPT !.asked = <<get_height(C)>>, !.pc = "wait"]

\* the isinstance chain handing a PrevoteMessage to receive_precommit
Handler_Misrouted(message) ==
    IF message.kind = "proposal" THEN "receive_proposal"
    ELSE IF message.kind = "prevote" THEN "receive_precommit"
    ELSE "receive_precommit"

\* the handler the isinstance chain of poll_messages selects
Handler(message) ==
    IF message.kind = "proposal" THEN "receive_proposal"
    ELSE IF message.kind = "prevote" THEN "receive_prevote"
    ELSE "receive_precommit"

\* the loop body leaving the loop when queue.get answers nothing
Resume_ReturnOnEmpty(C, message) ==
    IF message = NoMessage
    THEN [C EXCEPT !.pc = "stopped", !.event = "empty"]
    ELSE [C EXCEPT !.returned = Append(@, message),
                   !.dispatched = Append(@, [handler |-> Handler(message),
                                             message |-> message]),
                   !.in_progress = @ + 1,
                   !.pc = "handler",
                   !.event = "message"]

\* the loop body from the answer of queue.get to the next await: on nothing,
\* `continue` to the next queue.get; on a message, the call of its handler
Resume(C, message) ==
    IF message = NoMessage
    THEN [queue_get(C) EXCEPT !.event = "empty"]
    ELSE [C EXCEPT !.returned = Append(@, message),
                   !.dispatched = Append(@, [handler |-> Handler(message),
                                             message |-> message]),
                   !.in_progress = @ + 1,
                   !.pc = "handler",
                   !.event = "message"]

(***************************************************************************)
(* The state machine: a caller issuing MessageLog calls one after another. *)
(***************************************************************************)
Init ==
    /\ prevotes = MessageLog__init__.prevotes
    /\ precommits = MessageLog__init__.precommits
    /\ proposals = MessageLog__init__.proposals
    /\ tx_whitelist = MessageLog__init__.tx_whitelist
    /\ tx_blacklist = MessageLog__init__.tx_blacklist
    /\ call = [op |-> "__init__", arg |-> Nil]
    /\ ret = None
    /\ ncalls = 0
    /\ consumer = BaseMessageConsumer__init__

\* the call `op(arg)` returned `r`
Return(op, arg, r) ==
    /\ ncalls' = ncalls + 1
    /\ call' = [op |-> op, arg |-> arg]
    /\ ret' = r.ret
    /\ prevotes' = r.log.prevotes
    /\ precommits' = r.log.precommits
    /\ proposals' = r.log.proposals
    /\ tx_whitelist' = r.log.tx_whitelist
    /\ tx_blacklist' = r.log.tx_blacklist
    /\ UNCHANGED consumer

AddPrevote ==
    \E m \in PrevoteMessages :
        /\ ncalls < MaxCalls
        /\ Return("add_prevote", m, add_prevote(self, m))

AddPrecommit ==
    \E m \in PrecommitMessages :
        /\ ncalls < MaxCalls
        /\ Return("add_precommit", m, add_precommit(self, m))

AddProposal ==
    \E m \in ProposeBlockRequests :
        /\ ncalls < MaxCalls
        /\ Return("add_proposal", m, add_proposal(self, m))

\* add_message returns what the adder it calls returns: that adder ran last
AddMessage ==
    \E m \in PrevoteMessages \cup PrecommitMessages \cup ProposeBlockRequests :
        /\ ncalls < MaxCalls
        /\ Return(Dispatch(m), m, add_message(self, m))

Reset ==
    /\ ncalls < MaxCalls
    /\ Return("reset", Nil, reset(self))

Next == AddPrevote \/ AddPrecommit \/ AddProposal \/ AddMessage \/ Reset

Spec == Init /\ [][Next]_vars

(***************************************************************************)
(* The state machine of the consumer: the task of poll_messages, the queue *)
(* answering it, the chain moving to the next height and the stop signal.  *)
(***************************************************************************)
\* poll_messages(get_height) is called: the loop issues its first queue.get
PollMessages ==
    /\ pc = "idle"
    /\ consumer' = [queue_get(consumer) EXCEPT !.event = "poll_messages"]
    /\ UNCHANGED log_vars

\* queue.get answers the waiting loop, with a message or (timeout) with nothing;
\* a wait that the stop signal has cancelled is not answered
QueueGetReturns ==
    \E message \in QueuedMessages \cup {NoMessage} :
        /\ pc = "wait"
        /\ ~stop_signal
        /\ message # NoMessage => Len(returned) < MaxMessages
        /\ consumer' = Resume(consumer, message)
        /\ UNCHANGED log_vars

\* the awaited handler completes: the loop goes round to the next queue.get
HandlerReturns ==
    /\ pc = "handler"
    /\ in_progress > 0
    /\ consumer' = [queue_get(consumer) EXCEPT !.in_progress = @ - 1,
                                               !.event = "handler_returned"]
    /\ UNCHANGED log_vars

\* the chain commits a block: get_height() returns the next height from now on
AdvanceHeight ==
    /\ height < MaxHeight
    /\ consumer' = [consumer EXCEPT !.height = @ + 1, !.event = "height"]
    /\ UNCHANGED log_vars

\* the stop signal is raised
Stop ==
    /\ ~stop_signal
    /\ consumer' = [consumer EXCEPT !.stop_signal = TRUE, !.event = "stop"]
    /\ UNCHANGED log_vars

\* the stop signal cancels the loop in its queue-wait
Cancelled ==
    /\ pc = "wait"
    /\ stop_signal
    /\ consumer' = [consumer EXCEPT !.pc = "stopped", !.event = "cancelled"]
    /\ UNCHANGED log_vars

ConsumerNext ==
    PollMessages \/ QueueGetReturns \/ HandlerReturns \/ AdvanceHeight \/ Stop \/ Cancelled

ConsumerSpec == Init /\ [][ConsumerNext]_vars

\* the event loop delivers a raised cancellation to the task waiting in queue.get
ConsumerFairSpec == ConsumerSpec /\ WF_vars(Cancelled)

(***************************************************************************)
(* Vocabulary of the properties.                                           *)
(***************************************************************************)
LogVars == <<prevotes, precommits, proposals, tx_whitelist, tx_blacklist>>

\* every target a query may be asked about
AllTargets == Hashes \cup {Nil}

\* thresholds a caller may pass
Thresholds == 0..(Cardinality(PubKeys) + 1)

\* add_prevote ran last, called directly or by add_message
PrevoteCalled == call.op = "add_prevote"

PrecommitCalled == call.op = "add_precommit"

ProposalCalled == call.op = "add_proposal"

\* the entries of pubkey K in a set of votes
EntriesOf(K, votes) == {v \in votes : v.pubkey = K}

\* pubkey K has an entry at round R of the map m
Recorded(m, R, K) == R \in DOMAIN m /\ EntriesOf(K, m[R]) # {}

\* the counters of round R of a tally table (none when the round is not open)
Counters(table, R) == Get(table, R, EmptyDict)

\* one counter, a missing one read as 0
Counter(table, R, t) == Get(Counters(table, R), t, 0)

\* a list names some element twice
HasRepeat(s) == Len(s) > Cardinality(Range(s))

(***************************************************************************)
(* C1. Vote uniqueness: in every reachable state, for every round R and    *)
(* every pubkey K, prevotes[R] holds at most one entry of K and            *)
(* precommits[R] holds at most one entry of K.                             *)
(***************************************************************************)
VoteUniqueness ==
    /\ \A R \in DOMAIN prevotes : \A K \in PubKeys :
          Cardinality(EntriesOf(K, prevotes[R])) <= 1
    /\ \A R \in DOMAIN precommits : \A K \in PubKeys :
          Cardinality(EntriesOf(K, precommits[R])) <= 1

\* a second prevote of a recorded pubkey, naming another target, was refused
VoteUniquenessWitness ==
    /\ PrevoteCalled
    /\ ret = False
    /\ \E v \in prevotes[call.arg.round] :
          v.pubkey = call.arg.pubkey /\ v.target # call.arg.hash
    /\ Cardinality(prevotes[call.arg.round]) >= 2

(***************************************************************************)
(* C2. Duplicate prevote is a no-op: an add_prevote for (K, R) when K is   *)
(* already recorded at round R returns false and changes no part of the    *)
(* log, whatever its target and invalid_txs; and once a prevote v has been *)
(* recorded, add_prevote(v) again returns false and yields the same log.   *)
(***************************************************************************)
DuplicatePrevoteNoOp ==
    [][ /\ (PrevoteCalled' /\ Recorded(prevotes, call'.arg.round, call'.arg.pubkey))
            => (ret' = False /\ UNCHANGED LogVars)
        /\ (PrevoteCalled' /\ ret' = True)
            => add_prevote(self', call'.arg) = Result(self', False) ]_vars

\* a duplicate naming another target and carrying invalid_txs was refused,
\* with no blacklist counter at that round
DuplicatePrevoteWitness ==
    /\ PrevoteCalled
    /\ ret = False
    /\ call.arg.invalid_txs # <<>>
    /\ \E v \in prevotes[call.arg.round] :
          v.pubkey = call.arg.pubkey /\ v.target # call.arg.hash
    /\ tx_blacklist[call.arg.round] = EmptyDict

(***************************************************************************)
(* C3. Tally bound: in every reachable state, for every round R and every  *)
(* transaction hash t, tx_whitelist[R][t] <= |prevotes[R]| and             *)
(* tx_blacklist[R][t] <= |prevotes[R]|.                                    *)
(***************************************************************************)
TallyBound ==
    /\ \A R \in DOMAIN tx_whitelist : \A t \in DOMAIN tx_whitelist[R] :
          tx_whitelist[R][t] <= count_prevotes(self, R)
    /\ \A R \in DOMAIN tx_blacklist : \A t \in DOMAIN tx_blacklist[R] :
          tx_blacklist[R][t] <= count_prevotes(self, R)

\* a prevote listing a hash twice in invalid_txs was recorded and that hash's
\* blacklist counter equals |prevotes[R]|; a candidate body holding a
\* transaction twice was voted for and its whitelist counter equals |prevotes[R']|
TallyBoundWitness ==
    /\ PrevoteCalled
    /\ ret = True
    /\ HasRepeat(call.arg.invalid_txs)
    /\ \E t \in Range(call.arg.invalid_txs) :
          tx_blacklist[call.arg.round][t] = count_prevotes(self, call.arg.round)
    /\ \E h \in DOMAIN proposals, R \in DOMAIN tx_whitelist :
          /\ HasRepeat(proposals[h].body.transactions)
          /\ count_prevotes_for(self, R, h) >= 1
          /\ \E t \in DOMAIN tx_whitelist[R] :
                tx_whitelist[R][t] = count_prevotes(self, R)

(***************************************************************************)
(* C4. Reset completeness: after reset(), from any log state, every count  *)
(* is 0, no quorum holds for a threshold >= 1, get_candidate is nil for    *)
(* every hash and get_invalid_txs / get_valid_txs are empty for every      *)
(* round and threshold; and the first add after a reset returns true.      *)
(***************************************************************************)
QueriesEmpty ==
    /\ \A R \in Rounds, h \in AllTargets :
          /\ count_prevotes_for(self, R, h) = 0
          /\ count_precommits_for(self, R, h) = 0
          /\ \A threshold \in Thresholds \ {0} :
                /\ ~has_prevote_quorum(self, R, h, threshold)
                /\ ~has_precommit_quorum(self, R, h, threshold)
    /\ \A h \in Hashes : get_candidate(self, h) = NoBlock
    /\ \A R \in Rounds, threshold \in Thresholds :
          /\ get_invalid_txs(self, R, threshold) = {}
          /\ get_valid_txs(self, R, threshold) = {}

ResetCompleteness ==
    [][ /\ call'.op = "reset" => QueriesEmpty'
        /\ (call.op = "reset" /\ call'.op # "reset") => ret' = True ]_vars

\* reset() has run after earlier calls and left the log as constructed
ResetWitness ==
    /\ call.op = "reset"
    /\ ncalls >= 3
    /\ self = MessageLog__init__

(***************************************************************************)
(* C5. Quorum monotonicity: adding a message (proposal, prevote or         *)
(* precommit, new or duplicate) never decreases count_prevotes_for(R, h)   *)
(* or count_precommits_for(R, h) for any round R and target h, so a quorum *)
(* that holds for (R, h, threshold) still holds after every call but reset.*)
(***************************************************************************)
QuorumMonotonicity ==
    [][ call'.op # "reset" =>
          \A R \in Rounds, h \in AllTargets :
             LET prevotes_before == count_prevotes_for(self, R, h)
                 precommits_before == count_precommits_for(self, R, h)
             IN  /\ count_prevotes_for(self', R, h) >= prevotes_before
                 /\ count_precommits_for(self', R, h) >= precommits_before
                 \* a quorum held before the call at the thresholds up to the count
                 /\ \A threshold \in 1..prevotes_before :
                       has_prevote_quorum(self, R, h, threshold)
                          => has_prevote_quorum(self', R, h, threshold)
                 /\ \A threshold \in 1..precommits_before :
                       has_precommit_quorum(self, R, h, threshold)
                          => has_precommit_quorum(self', R, h, threshold) ]_vars

\* a prevote of an already recorded pubkey naming another target was added,
\* and the quorum of two for the recorded target still holds
QuorumMonotonicityWitness ==
    /\ PrevoteCalled
    /\ ret = False
    /\ \E v \in prevotes[call.arg.round] :
          /\ v.pubkey = call.arg.pubkey
          /\ v.target # call.arg.hash
          /\ has_prevote_quorum(self, call.arg.round, v.target, 2)

(***************************************************************************)
(* C6. Proposals are append-only and first-writer-wins: add_proposal for a *)
(* hash not in proposals stores the block and returns true; for a hash     *)
(* already in proposals it returns false and changes nothing; no call but  *)
(* reset changes or removes the block recorded under a hash.               *)
(***************************************************************************)
ProposalsFirstWriterWins ==
    [][ /\ ProposalCalled' =>
              LET block == call'.arg.block
                  hash == block.header.hash
              IN  IF hash \in DOMAIN proposals
                  THEN ret' = False /\ UNCHANGED LogVars
                  ELSE /\ ret' = True
                       /\ get_candidate(self', hash) = block
                       /\ DOMAIN proposals' = DOMAIN proposals \cup {hash}
                       /\ UNCHANGED <<prevotes, precommits, tx_whitelist, tx_blacklist>>
        /\ call'.op # "reset" =>
              \A h \in DOMAIN proposals :
                 get_candidate(self', h) = get_candidate(self, h) ]_vars

\* a proposal with a known hash and another body was refused while a
\* candidate of another hash is stored as well
ProposalsWitness ==
    /\ ProposalCalled
    /\ ret = False
    /\ get_candidate(self, call.arg.block.header.hash).body # call.arg.block.body
    /\ Cardinality(DOMAIN proposals) = 2

(***************************************************************************)
(* C7. No retroactive whitelisting: a prevote recorded while its target    *)
(* has no candidate changes no whitelist counter and adds one to the       *)
(* blacklist counter of each hash in its invalid_txs; add_proposal changes *)
(* no tally; a prevote recorded once the candidate is stored adds one to   *)
(* the whitelist counter of each of the block's transactions it does not   *)
(* flag.                                                                   *)
(***************************************************************************)
NoRetroactiveWhitelisting ==
    [][ /\ (PrevoteCalled' /\ ret' = True /\ get_candidate(self, call'.arg.hash) = NoBlock) =>
              /\ \A R \in Rounds : Counters(tx_whitelist', R) = Counters(tx_whitelist, R)
              /\ \A R \in Rounds, t \in TxHashes :
                    Counter(tx_blacklist', R, t) =
                       Counter(tx_blacklist, R, t) +
                       (IF R = call'.arg.round /\ t \in Range(call'.arg.invalid_txs)
                        THEN 1 ELSE 0)
        /\ ProposalCalled' => UNCHANGED <<tx_whitelist, tx_blacklist>>
        /\ (PrevoteCalled' /\ ret' = True /\ get_candidate(self, call'.arg.hash) # NoBlock) =>
              \A tx \in Range(get_candidate(self, call'.arg.hash).body.transactions) :
                 get_tx_hash(tx) \notin Range(call'.arg.invalid_txs) =>
                    Counter(tx_whitelist', call'.arg.round, get_tx_hash(tx)) =
                       Counter(tx_whitelist, call'.arg.round, get_tx_hash(tx)) + 1 ]_vars

\* two prevotes that flag nothing are recorded for a stored candidate, yet its
\* transactions are whitelisted once: one of the prevotes came before the proposal
ArrivalOrderWitness ==
    /\ PrevoteCalled
    /\ ret = True
    /\ call.arg.hash \in DOMAIN proposals
    /\ count_prevotes(self, call.arg.round) = 2
    /\ count_prevotes_for(self, call.arg.round, call.arg.hash) = 2
    /\ tx_blacklist[call.arg.round] = EmptyDict
    /\ \A tx \in Range(proposals[call.arg.hash].body.transactions) :
          tx_whitelist[call.arg.round][get_tx_hash(tx)] = 1

(***************************************************************************)
(* C8. A newly recorded nil-target prevote at round R adds one to          *)
(* tx_blacklist[R][t] for every hash t in its invalid_txs, changes no      *)
(* other blacklist counter and no whitelist counter, whatever proposals    *)
(* are stored.                                                             *)
(***************************************************************************)
NilPrevoteBlacklistsOnly ==
    [][ (PrevoteCalled' /\ call'.arg.hash = Nil /\ ret' = True) =>
          /\ \A R \in Rounds, t \in TxHashes :
                Counter(tx_blacklist', R, t) =
                   Counter(tx_blacklist, R, t) +
                   (IF R = call'.arg.round /\ t \in Range(call'.arg.invalid_txs)
                    THEN 1 ELSE 0)
          /\ \A R \in Rounds : Counters(tx_whitelist', R) = Counters(tx_whitelist, R) ]_vars

\* a nil prevote carrying invalid_txs was recorded while a candidate is stored,
\* raising a blacklist counter from 1 to 2
NilPrevoteWitness ==
    /\ PrevoteCalled
    /\ call.arg.hash = Nil
    /\ ret = True
    /\ proposals # EmptyDict
    /\ \E t \in Range(call.arg.invalid_txs) : tx_blacklist[call.arg.round][t] = 2
    /\ tx_whitelist[call.arg.round] = EmptyDict

(***************************************************************************)
(* C9. Tally tables share the round lifecycle of prevotes: in every        *)
(* reachable state prevotes, tx_whitelist and tx_blacklist have the same   *)
(* round keys, and add_precommit and add_proposal neither create nor       *)
(* remove a key of any of the three.                                       *)
(***************************************************************************)
SameRoundKeys ==
    /\ DOMAIN tx_whitelist = DOMAIN prevotes
    /\ DOMAIN tx_blacklist = DOMAIN prevotes

TallyRoundLifecycle ==
    /\ SameRoundKeys
    /\ [][ /\ SameRoundKeys'
           /\ (PrecommitCalled' \/ ProposalCalled') =>
                 /\ DOMAIN prevotes' = DOMAIN prevotes
                 /\ DOMAIN tx_whitelist' = DOMAIN tx_whitelist
                 /\ DOMAIN tx_blacklist' = DOMAIN tx_blacklist ]_vars

\* a precommit was recorded at a round that has no prevote, beside a round
\* opened by a prevote
TallyRoundLifecycleWitness ==
    /\ PrecommitCalled
    /\ ret = True
    /\ call.arg.round \notin DOMAIN prevotes
    /\ DOMAIN prevotes # {}
    /\ SameRoundKeys

(***************************************************************************)
(* C10. Counting and quorum predicates: count_prevotes_for(R, h) is the    *)
(* number of distinct pubkeys whose recorded round-R prevote names h (nil  *)
(* counts the nil votes, a round never opened counts 0), likewise          *)
(* count_precommits_for, and has_*_quorum(R, h, threshold) holds exactly   *)
(* when that number is >= threshold.                                       *)
(***************************************************************************)
\* the pubkeys whose entry at round R of the map m names target h
Voters(m, R, h) ==
    {K \in PubKeys : R \in DOMAIN m /\ \E v \in m[R] : v.pubkey = K /\ v.target = h}

CountsAndQuorums ==
    \A R \in Rounds, h \in AllTargets :
       LET prevoters == Cardinality(Voters(prevotes, R, h))
           precommitters == Cardinality(Voters(precommits, R, h))
       IN  /\ count_prevotes_for(self, R, h) = prevoters
           /\ count_precommits_for(self, R, h) = precommitters
           /\ \A threshold \in Thresholds :
                 /\ has_prevote_quorum(self, R, h, threshold) <=> prevoters >= threshold
                 /\ has_precommit_quorum(self, R, h, threshold)
                       <=> precommitters >= threshold

\* three precommits for one hash from three pubkeys at round 0: a quorum at
\* threshold 3
CountsAndQuorumsWitness ==
    /\ PrecommitCalled
    /\ ret = True
    /\ call.arg.round = 0
    /\ call.arg.hash \in Hashes
    /\ Cardinality(Voters(precommits, 0, call.arg.hash)) = 3
    /\ has_precommit_quorum(self, 0, call.arg.hash, 3)

(***************************************************************************)
(* C11. Threshold queries: get_invalid_txs(R, threshold) is exactly the    *)
(* set of hashes whose round-R blacklist counter is >= threshold and       *)
(* get_valid_txs(R, threshold) the set of hashes whose round-R whitelist   *)
(* counter is >= threshold (for a threshold >= 1 a hash without a counter  *)
(* is out; for a threshold <= 0 the hashes that have a counter), and both  *)
(* are empty for a round in which no prevote is recorded.                  *)
(***************************************************************************)
\* the two queries agree with the counters of the state
QueriesMatchCounters ==
    \A R \in Rounds :
       /\ \A threshold \in Thresholds \ {0} :
             /\ get_invalid_txs(self, R, threshold) =
                   {t \in TxHashes : Counter(tx_blacklist, R, t) >= threshold}
             /\ get_valid_txs(self, R, threshold) =
                   {t \in TxHashes : Counter(tx_whitelist, R, t) >= threshold}
       /\ get_invalid_txs(self, R, 0) = DOMAIN Counters(tx_blacklist, R)
       /\ get_valid_txs(self, R, 0) = DOMAIN Counters(tx_whitelist, R)
       /\ R \notin DOMAIN prevotes =>
             \A threshold \in Thresholds :
                /\ get_invalid_txs(self, R, threshold) = {}
                /\ get_valid_txs(self, R, threshold) = {}

ThresholdQueries == []QueriesMatchCounters

\* three validators prevoted at round 0 flagging `bad`: it is the invalid
\* transaction at threshold 3 and is not a valid one
ThresholdQueriesWitness ==
    /\ PrevoteCalled
    /\ ret = True
    /\ call.arg.round = 0
    /\ count_prevotes(self, 0) = 3
    /\ get_invalid_txs(self, 0, 3) = {get_tx_hash("bad")}
    /\ get_tx_hash("bad") \notin get_valid_txs(self, 0, 3)

(***************************************************************************)
(* C12. Duplicate precommit is a no-op: add_precommit from a pubkey with   *)
(* no precommit at that round records it and returns true; add_precommit   *)
(* from a pubkey already recorded at that round, whatever its target,      *)
(* returns false and changes no part of the log, so the first target is    *)
(* kept and no count_precommits_for changes.                               *)
(***************************************************************************)
DuplicatePrecommitNoOp ==
    [][ PrecommitCalled' =>
          LET R == call'.arg.round
              K == call'.arg.pubkey
          IN  IF Recorded(precommits, R, K)
              THEN /\ ret' = False
                   /\ UNCHANGED LogVars
                   /\ \A h \in AllTargets :
                         count_precommits_for(self', R, h) = count_precommits_for(self, R, h)
              ELSE /\ ret' = True
                   /\ EntriesOf(K, precommits'[R]) = {Commit(K, call'.arg.hash)}
                   /\ count_precommits(self', R) = count_precommits(self, R) + 1 ]_vars

\* a precommit of a recorded pubkey naming another target was refused and the
\* first target is still the one recorded
DuplicatePrecommitWitness ==
    /\ PrecommitCalled
    /\ ret = False
    /\ \E c \in precommits[call.arg.round] :
          /\ c.pubkey = call.arg.pubkey
          /\ c.target # call.arg.hash
          /\ count_precommits_for(self, call.arg.round, c.target) = 1
          /\ count_precommits_for(self, call.arg.round, call.arg.hash) = 0

(***************************************************************************)
(* C13. add_message is the specific adder of the message's kind: from      *)
(* every log state and for every message m, add_message(m) yields the log  *)
(* and the boolean that add_proposal(m), add_prevote(m) or                 *)
(* add_precommit(m) yields according to m's kind; the boolean is true      *)
(* exactly when m was newly recorded and false when it was a duplicate,    *)
(* which leaves the log as it was.                                         *)
(***************************************************************************)
\* the adder for the kind of m, applied
SpecificAdder(L, m) ==
    CASE m.kind = "proposal" -> add_proposal(L, m)
      [] m.kind = "prevote" -> add_prevote(L, m)
      [] m.kind = "precommit" -> add_precommit(L, m)

\* m is already in the log L: its hash for a proposal, else its pubkey at its
\* round and step
IsDuplicate(L, m) ==
    CASE m.kind = "proposal" -> m.block.header.hash \in DOMAIN L.proposals
      [] m.kind = "prevote" -> Recorded(L.prevotes, m.round, m.pubkey)
      [] m.kind = "precommit" -> Recorded(L.precommits, m.round, m.pubkey)

AddMessageEquivalence ==
    [][ call'.op # "reset" =>
          LET m == call'.arg
              direct == SpecificAdder(self, m)
              duplicate == IsDuplicate(self, m)
          IN  /\ add_message(self, m) = [log |-> self', ret |-> ret']
              /\ direct = [log |-> self', ret |-> ret']
              /\ ret' = (IF duplicate THEN False ELSE True)
              /\ duplicate => UNCHANGED LogVars
              /\ IsDuplicate(self', m) ]_vars

\* a prevote was just recorded: add_message of it again is the refused
\* duplicate, while add_message of the same validator's precommit at that
\* round and of an unknown proposal are new records
AddMessageWitness ==
    /\ PrevoteCalled
    /\ ret = True
    /\ add_message(self, call.arg) = Result(self, False)
    /\ \E m \in PrecommitMessages :
          /\ m.round = call.arg.round
          /\ m.pubkey = call.arg.pubkey
          /\ add_message(self, m).ret = True
    /\ \E m \in ProposeBlockRequests :
          /\ add_message(self, m).ret = True
          /\ add_message(add_message(self, m).log, m).ret = False

(***************************************************************************)
(* C14. Sequential dispatch in the consumer loop: every message queue.get  *)
(* returns is passed to exactly one handler, the one of its kind, in the   *)
(* order the queue returned them; at most one handler is in progress and   *)
(* no queue.get is issued or pending while one is; every queue.get is      *)
(* called with the height get_height() returns at the moment of the call;  *)
(* an empty answer invokes no handler.                                     *)
(***************************************************************************)
\* the handler named after the kind of a message
HandlerOfKind(kind) ==
    CASE kind = "proposal" -> "receive_proposal"
      [] kind = "prevote" -> "receive_prevote"
      [] kind = "precommit" -> "receive_precommit"

\* the steps in which the loop calls queue.get
GetIssued == event \in {"poll_messages", "empty", "handler_returned"}

SequentialDispatch ==
    /\ [](/\ Len(dispatched) = Len(returned)
          /\ \A i \in DOMAIN returned :
                dispatched[i] = [handler |-> HandlerOfKind(returned[i].kind),
                                 message |-> returned[i]]
          /\ in_progress <= 1
          /\ in_progress = 1 <=> pc = "handler"
          /\ pc = "wait" => in_progress = 0)
    /\ [][ /\ GetIssued' =>
                /\ asked' = <<height>>
                /\ height' = height
                /\ in_progress' = 0
                /\ dispatched' = dispatched
           /\ asked' # asked => GetIssued'
           /\ pc = "handler" =>
                \/ pc' = "handler" /\ asked' = asked /\ dispatched' = dispatched
                \/ event' = "handler_returned"
           /\ dispatched' # dispatched =>
                /\ event' = "message"
                /\ pc = "wait"
                /\ Len(dispatched') = Len(dispatched) + 1 ]_vars

\* two messages of different kinds were returned and the second is being
\* handled; the queue.get that returned it was issued at height 1 and the chain
\* has moved to height 2 since
SequentialDispatchWitness ==
    /\ pc = "handler"
    /\ in_progress = 1
    /\ Len(returned) = 2
    /\ returned[1].kind # returned[2].kind
    /\ dispatched[2].handler = HandlerOfKind(returned[2].kind)
    /\ asked = <<1>>
    /\ height = 2

Flagged(R, t) ==
    IF /\ PrevoteCalled
       /\ ret = True
       /\ call.arg.round = R
       /\ t \in Range(call.arg.invalid_txs)
    THEN 1 ELSE 0

BlacklistUpdateRule ==
    /\ [](ncalls = 0 => tx_blacklist = EmptyDict)
    /\ [][ /\ \A R \in Rounds, t \in TxHashes :
                Counter(tx_blacklist', R, t) =
                   IF call'.op = "reset" THEN 0
                   ELSE Counter(tx_blacklist, R, t) + Flagged(R, t)'
           /\ (PrevoteCalled' /\ ret' = True) =>
                Range(call'.arg.invalid_txs) \subseteq DOMAIN tx_blacklist'[call'.arg.round] ]_vars

\* a prevote for a stored candidate whose body does not hold the hash it flags
\* was recorded, after a prevote for no block that flagged the same hash: the
\* counter is 2
BlacklistUpdateWitness ==
    /\ PrevoteCalled
    /\ ret = True
    /\ get_candidate(self, call.arg.hash) # NoBlock
    /\ HasRepeat(call.arg.invalid_txs)
    /\ \E t \in Range(call.arg.invalid_txs) :
          /\ t \notin {get_tx_hash(tx) :
                          tx \in Range(get_candidate(self, call.arg.hash).body.transactions)}
          /\ tx_blacklist[call.arg.round][t] = 2
    /\ count_prevotes_for(self, call.arg.round, Nil) = 1

(***************************************************************************)
(* C17. Whitelist update rule: a newly recorded prevote at round R whose   *)
(* target has a stored candidate B adds exactly 1 to tx_whitelist[R][t]    *)
(* for each hash t of a transaction of B's body that is not in its         *)
(* invalid_txs; the whitelist counter of a hash that is in invalid_txs or  *)
(* not in B's body is neither changed nor created; the whitelist counters  *)
(* of the other rounds are unchanged.                                      *)
(***************************************************************************)
\* the hashes of the transactions of a block's body
BodyHashes(block) == {get_tx_hash(tx) : tx \in Range(block.body.transactions)}

WhitelistUpdateRule ==
    [][ (PrevoteCalled' /\ ret' = True /\ get_candidate(self, call'.arg.hash) # NoBlock) =>
          LET R == call'.arg.round
              body == BodyHashes(get_candidate(self, call'.arg.hash))
              flagged == Range(call'.arg.invalid_txs)
              before == Counters(tx_whitelist, R)
              after == Counters(tx_whitelist', R)
          IN  /\ \A t \in body \ flagged :
                    /\ t \in DOMAIN after
                    /\ after[t] = Get(before, t, 0) + 1
              /\ \A t \in TxHashes \ (body \ flagged) :
                    /\ t \in DOMAIN after <=> t \in DOMAIN before
                    /\ t \in DOMAIN before => after[t] = before[t]
              /\ \A R2 \in Rounds \ {R} :
                    /\ R2 \in DOMAIN tx_whitelist' <=> R2 \in DOMAIN tx_whitelist
                    /\ Counters(tx_whitelist', R2) = Counters(tx_whitelist, R2) ]_vars

\* the second prevote for a stored candidate was recorded at a round: it flags a
\* transaction of the body, which has no whitelist counter, while the other
\* transaction of the body stands at 2
WhitelistUpdateWitness ==
    /\ PrevoteCalled
    /\ ret = True
    /\ get_candidate(self, call.arg.hash) # NoBlock
    /\ \E t \in Range(call.arg.invalid_txs) :
          /\ t \in BodyHashes(get_candidate(self, call.arg.hash))
          /\ t \notin DOMAIN tx_whitelist[call.arg.round]
    /\ \E t \in BodyHashes(get_candidate(self, call.arg.hash)) :
          Counter(tx_whitelist, call.arg.round, t) = 2

(***************************************************************************)
(* C18. Quorum exclusivity within a round: in every reachable state and    *)
(* for every round R, count_prevotes_for(R, h) summed over all targets h   *)
(* (nil included) is the number of distinct pubkeys recorded in            *)
(* prevotes[R], and likewise for precommits; hence, the recorded pubkeys   *)
(* being among N validators, for a threshold with 2 * threshold > N at     *)
(* most one target has a prevote quorum and at most one a precommit quorum.*)
(***************************************************************************)
RECURSIVE SumOver(_, _)
\* the sum of the values of the function f over the set S
SumOver(f, S) ==
    IF S = {} THEN 0
    ELSE LET x == CHOOSE y \in S : TRUE
         IN  f[x] + SumOver(f, S \ {x})

\* the pubkeys recorded at round R of the map m
PubkeysAt(m, R) == {v.pubkey : v \in Get(m, R, {})}

\* the state of the log keeps the quorums of every round exclusive
ExclusiveQuorums ==
    \A R \in Rounds :
       LET prevotes_for == [h \in AllTargets |-> count_prevotes_for(self, R, h)]
           precommits_for == [h \in AllTargets |-> count_precommits_for(self, R, h)]
           N == Cardinality(PubKeys)
       IN  /\ SumOver(prevotes_for, AllTargets) = Cardinality(PubkeysAt(prevotes, R))
           /\ SumOver(precommits_for, AllTargets) = Cardinality(PubkeysAt(precommits, R))
           /\ PubkeysAt(prevotes, R) \cup PubkeysAt(precommits, R) \subseteq PubKeys
           /\ \A threshold \in Thresholds :
                 2 * threshold > N =>
                    /\ Cardinality({h \in AllTargets :
                                       has_prevote_quorum(self, R, h, threshold)}) <= 1
                    /\ Cardinality({h \in AllTargets :
                                       has_precommit_quorum(self, R, h, threshold)}) <= 1

QuorumExclusivity == []ExclusiveQuorums

\* three validators precommitted at a round, two for a block and one for nil:
\* the block has the quorum of two and nil has not
QuorumExclusivityWitness ==
    /\ PrecommitCalled
    /\ ret = True
    /\ count_precommits(self, call.arg.round) = 3
    /\ \E h \in Hashes :
          /\ has_precommit_quorum(self, call.arg.round, h, 2)
          /\ count_precommits_for(self, call.arg.round, Nil) = 1
          /\ ~has_precommit_quorum(self, call.arg.round, Nil, 2)

(***************************************************************************)
(* C19. No prevote both whitelists and blacklists a transaction: in every  *)
(* reachable state, for every round R and transaction hash t,              *)
(* tx_whitelist[R][t] + tx_blacklist[R][t] <= |prevotes[R]|, a missing     *)
(* counter counting as 0.                                                  *)
(***************************************************************************)
\* the two counters of a hash together do not exceed the round's prevotes
TalliesWithinPrevotes ==
    \A R \in Rounds :
       LET recorded == count_prevotes(self, R)
       IN  \A t \in TxHashes :
              Counter(tx_whitelist, R, t) + Counter(tx_blacklist, R, t) <= recorded

TallyExclusion == []TalliesWithinPrevotes

\* two prevotes for a stored candidate are recorded at a round, one of them
\* flagging a transaction of its body: that transaction is whitelisted once
\* and blacklisted once
TallyExclusionWitness ==
    /\ PrevoteCalled
    /\ ret = True
    /\ count_prevotes(self, call.arg.round) = 2
    /\ \E t \in TxHashes :
          /\ Counter(tx_whitelist, call.arg.round, t) = 1
          /\ Counter(tx_blacklist, call.arg.round, t) = 1

(***************************************************************************)
(* C20. Frame and round isolation: add_prevote for round R changes at most *)
(* prevotes[R], tx_whitelist[R] and tx_blacklist[R]; add_precommit for     *)
(* round R changes at most precommits[R]; add_proposal changes at most     *)
(* proposals. A vote is a duplicate exactly when its pubkey is recorded at *)
(* its own round and step, so one pubkey can be recorded as a prevote and  *)
(* as a precommit in one round, and in each of several rounds.             *)
(***************************************************************************)
\* round R of the map m is the same, present or absent, before and after a step
SameAtRound(m_before, m_after, R) ==
    /\ R \in DOMAIN m_after <=> R \in DOMAIN m_before
    /\ R \in DOMAIN m_before => m_after[R] = m_before[R]

FrameIsolation ==
    [][ /\ PrevoteCalled' =>
              /\ UNCHANGED <<precommits, proposals>>
              /\ \A R \in Rounds \ {call'.arg.round} :
                    /\ SameAtRound(prevotes, prevotes', R)
                    /\ SameAtRound(tx_whitelist, tx_whitelist', R)
                    /\ SameAtRound(tx_blacklist, tx_blacklist', R)
              /\ ret' = False <=> Recorded(prevotes, call'.arg.round, call'.arg.pubkey)
        /\ PrecommitCalled' =>
              /\ UNCHANGED <<prevotes, tx_whitelist, tx_blacklist, proposals>>
              /\ \A R \in Rounds \ {call'.arg.round} :
                    SameAtRound(precommits, precommits', R)
              /\ ret' = False <=> Recorded(precommits, call'.arg.round, call'.arg.pubkey)
        /\ ProposalCalled' =>
              UNCHANGED <<prevotes, precommits, tx_whitelist, tx_blacklist>> ]_vars

\* a validator holding a precommit at a round and a prevote at the other round
\* had its prevote at the first round recorded, and those entries stand
FrameIsolationWitness ==
    /\ PrevoteCalled
    /\ ret = True
    /\ Recorded(precommits, call.arg.round, call.arg.pubkey)
    /\ \E R \in Rounds \ {call.arg.round} : Recorded(prevotes, R, call.arg.pubkey)
    /\ Recorded(prevotes, call.arg.round, call.arg.pubkey)

====
